---- MODULE Spec2Model ----
(***************************************************************************)
(* The agent endpoints of main.py (analysis_agent / chat_agent) and the    *)
(* tool-calling conversation loop of analysis/client.py                    *)
(* (MCPClient.connect_to_server, process_query, cleanup), with the         *)
(* per-user logger that MCPClient.__init__ configures.                     *)
(*                                                                         *)
(* The Tool Registry (the MCP session), the Prompt Resolver and the Model  *)
(* Gateway (anthropic.messages.create) are the environment: each call      *)
(* either returns one of a small set of values or raises.                  *)
(***************************************************************************)
EXTENDS Integers, Sequences, FiniteSets, TLC

VARIABLES cl, handlers, trace, oauth

vars == <<cl, handlers, trace, oauth>>

----------------------------------------------------------------------------
(* Bounds of the exploration *)

\* the most tool-call turns the gateway stub returns in one session
MaxIter == 2
\* the most content blocks in one gateway response
MaxBlocks == 2

----------------------------------------------------------------------------
(* Values *)

ClientIds == {1, 2}
UserIds == {"u1", "u2"}
Queries == {"list files"}
ToolNames == {"read_file", "retrieve_metadata"}

None == "None"

\* logging levels of the standard library; the logger and its file handlers
\* are both set to INFO
DEBUG == 10
INFO == 20
LoggerLevel == INFO
HandlerLevel == INFO

\* the gateway stub: the number of leading tool-call turns, or Forever
Forever == 0 - 1
Stubs == (0..MaxIter) \cup {Forever}

\* the catalog the registry lists
Catalog == ToolNames

\* what session.get_prompt("analysis_system_prompt") can return: no
\* messages, one message with text content, one message with other content
PromptResults ==
    { <<>>,
      << [content |-> [type |-> "text", text |-> "You are a seasoned Salesforce expert"]] >>,
      << [content |-> [type |-> "image"]] >> }

\* lines 86-92: the text of the first message, when there is one
ExtractPromptText(msgs) ==
    IF Len(msgs) > 0 /\ "text" \in DOMAIN msgs[1].content
    THEN msgs[1].content.text
    ELSE None

\* line 167: the system instruction of the summary call
SummarySystem(query) == <<"Provide a summary of the analysis conducted for the query", query>>

----------------------------------------------------------------------------
(* The Model Gateway *)

BlockTypes == {"text", "tool_use"}

Shapes == UNION { [1..n -> BlockTypes] : n \in 0..MaxBlocks }

HasToolUse(content) == \E i \in 1..Len(content) : content[i].type = "tool_use"

\* the tool and the arguments the stub asks for in block i of response g
ToolAt(g, i) ==
    IF (g + i) % 2 = 0
    THEN [name |-> "read_file", input |-> [file_path |-> "/a.txt"]]
    ELSE [name |-> "retrieve_metadata", input |-> [metadata_type |-> "Flow"]]

\* the g-th response of a session: text fragments and call identifiers are
\* distinct across the session
MakeResponse(g, shape) ==
    [ i \in 1..Len(shape) |->
        IF shape[i] = "text"
        THEN [type |-> "text", text |-> [fragment |-> <<g, i>>]]
        ELSE [type |-> "tool_use", id |-> <<"toolu", g, i>>,
              name |-> ToolAt(g, i).name, input |-> ToolAt(g, i).input] ]

\* the responses the stub may give to the g-th loop call
GatewayResponses(stub, g) ==
    { r \in { MakeResponse(g, s) : s \in Shapes } :
        HasToolUse(r) <=> (stub = Forever \/ g <= stub) }

SummaryResponses ==
    { << [type |-> "text", text |-> "summary"] >>,
      << [type |-> "text", text |-> "summary"], [type |-> "text", text |-> "more"] >> }

----------------------------------------------------------------------------
(* The per-user logger (client.py 30-49) *)

\* logger.log(level, msg): dropped below the logger's level, else one record
\* per attached handler whose level admits it
Emit(tr, n, level, msg) ==
    IF level >= LoggerLevel /\ level >= HandlerLevel
    THEN tr \o [k \in 1..n |-> [level |-> level, msg |-> msg]]
    ELSE tr

----------------------------------------------------------------------------
(* The state of one request: the MCPClient instance, the locals of         *)
(* process_query, the position of the endpoint handler, and the record of  *)
(* the calls the session has made to the gateway and to the registry       *)

NoResult == [isError |-> FALSE, content |-> None]

\* client.py 51: the default launch target, 'analysisagent/server.py', as
\* its characters
DefaultTarget ==
    << "a", "n", "a", "l", "y", "s", "i", "s", "a", "g", "e", "n", "t", "/",
       "s", "e", "r", "v", "e", "r", ".", "p", "y" >>

\* launch targets a caller of connect_to_server may pass
LaunchTargets ==
    { DefaultTarget,
      << "s", ".", "j", "s" >>,
      << "s", ".", "t", "x", "t" >>,
      << "s", "p", "y" >>,
      << "s", ".", "P", "Y" >>,
      << "s", ".", "p", "y", "c" >>,
      << "j", "s" >>,
      << >> }

\* str.endswith
EndsWith(str, suffix) ==
    /\ Len(str) >= Len(suffix)
    /\ SubSeq(str, Len(str) - Len(suffix) + 1, Len(str)) = suffix

RecognizedAnyPy(path) ==
    EndsWith(path, << "p", "y" >>) \/ EndsWith(path, << "j", "s" >>)

\* client.py 57-60: the target is a .py or a .js file
Recognized(path) ==
    EndsWith(path, << ".", "p", "y" >>) \/ EndsWith(path, << ".", "j", "s" >>)

\* client.py 62
Command(path) == IF EndsWith(path, << ".", "p", "y" >>) THEN "python3" ELSE "node"

InitClientAt(u, q, s, p) ==
    [ pc |-> "request",          \* where the endpoint handler stands
      server_script_path |-> p,  \* the launch target given to connect_to_server
      command |-> None,          \* the command of the registry process
      user_id |-> u,
      query |-> q,               \* request.description
      stub |-> s,                \* the gateway's script for this session
      session |-> None,          \* self.session
      exit_stack |-> <<>>,       \* contexts entered on self.exit_stack
      conn |-> "none",           \* the registry process: none, held, released
      prompt_text |-> None,
      available_tools |-> {},
      messages |-> <<>>,         \* the Transcript
      response |-> <<>>,         \* response.content being scanned
      idx |-> 0,                 \* position of the block that stopped the scan
      amc |-> <<>>,              \* assistant_message_content
      final_text |-> <<>>,
      result |-> NoResult,       \* result of the pending call_tool
      response_summary |-> <<>>, \* response_summary.content
      gw |-> <<>>,               \* calls made to the Model Gateway
      responses |-> <<>>,        \* the loop responses the gateway has given
      invoked |-> <<>>,          \* requests sent to session.call_tool
      listed |-> 0,              \* list_tools requests sent
      exc |-> None,              \* the exception propagating, if any
      retval |-> None,           \* what the endpoint returns to the caller
      cleanups |-> 0 ]           \* times cleanup() has run

\* main.py 168: the endpoints call connect_to_server() with its default
InitClient(u, q, s) == InitClientAt(u, q, s, DefaultTarget)

SetSharedTranscript(c, r) ==
    cl' = [d \in DOMAIN cl |->
              IF d = c THEN r ELSE [cl[d] EXCEPT !.messages = r.messages]]

\* a step of the handler of request c: its client and its locals are its own
Set(c, r) == cl' = [cl EXCEPT ![c] = r]

RaiseSkipsCleanup(c, r, kind) == Set(c, [r EXCEPT !.pc = "done", !.exc = kind])

RaiseReturnsPartial(c, r, kind) ==
    Set(c, [r EXCEPT !.pc = "finally",
                     !.retval = IF kind = "GatewayError" THEN "partial" ELSE None,
                     !.exc = IF kind = "GatewayError" THEN None ELSE kind])

\* an exception leaves connect_to_server or process_query and reaches the
\* finally clause of the endpoint (main.py 167-171)
Raise(c, r, kind) == Set(c, [r EXCEPT !.pc = "finally", !.exc = kind])

LoopCalls(r) == SelectSeq(r.gw, LAMBDA q : q.kind = "loop")
SummaryCalls(r) == SelectSeq(r.gw, LAMBDA q : q.kind = "summary")

----------------------------------------------------------------------------
(* main.py 164-171 (and the identical 173-180): the endpoint *)

\* main.py 166 and client.py 22-49: the constructor attaches one more file
\* handler to the process-wide logger of the user
AddHandlerOnce(h, u) == IF h[u] = 0 THEN [h EXCEPT ![u] = 1] ELSE h

\* client.py 31 and 49: getLogger returns the one logger of the user, and
\* addHandler attaches the new file handler to it
AddHandler(h, u) == [h EXCEPT ![u] = @ + 1]

Construct(c) ==
    /\ cl[c].pc = "request"
    /\ Set(c, [cl[c] EXCEPT !.pc = "connect"])
    /\ handlers' = AddHandler(handlers, cl[c].user_id)
    /\ UNCHANGED trace

\* client.py 57-70: the launch target is validated, then the registry
\* process is launched and its pipes entered on the exit stack
ConnectLaunch(c) ==
    /\ cl[c].pc = "connect"
    /\ IF ~Recognized(cl[c].server_script_path)
       THEN Raise(c, cl[c], "ValueError")
       ELSE LET r == [cl[c] EXCEPT !.command = Command(cl[c].server_script_path)]
            IN  \/ Set(c, [r EXCEPT !.pc = "initialize", !.conn = "held",
                                    !.exit_stack = Append(@, "stdio")])
                \/ Raise(c, r, "ConnectionError")
    /\ UNCHANGED <<handlers, trace>>

\* client.py 71-73: the ClientSession is entered and the handshake made
ConnectInitialize(c) ==
    /\ cl[c].pc = "initialize"
    /\ \/ Set(c, [cl[c] EXCEPT !.pc = "connect_list", !.session = "session",
                               !.exit_stack = Append(@, "session")])
       \/ Raise(c, [cl[c] EXCEPT !.session = "session",
                                 !.exit_stack = Append(@, "session")],
                "ConnectionError")
    /\ UNCHANGED <<handlers, trace>>

\* client.py 76-77: the catalog is listed and dropped
ConnectListTools(c) ==
    /\ cl[c].pc = "connect_list"
    /\ \/ Set(c, [cl[c] EXCEPT !.pc = "get_prompt", !.listed = @ + 1])
       \/ Raise(c, [cl[c] EXCEPT !.listed = @ + 1], "RegistryError")
    /\ UNCHANGED <<handlers, trace>>

\* client.py 174-176 under main.py 170-171: the finally clause
AcloseConn(r) == IF r.conn = "held" THEN "released" ELSE r.conn

Cleanup(c) ==
    /\ cl[c].pc = "finally"
    /\ Set(c, [cl[c] EXCEPT !.pc = "done", !.cleanups = @ + 1,
                            !.exit_stack = <<>>, !.conn = AcloseConn(cl[c])])
    /\ UNCHANGED <<handlers, trace>>

----------------------------------------------------------------------------
(* client.py 79-172: process_query *)

\* lines 94-99: the Transcript as process_query creates it
InitialMessages(query) == << [role |-> "user", content |-> query] >>

\* lines 81-99: the system prompt is fetched and its text extracted; the
\* Transcript starts as the one user turn of the query
GetPrompt(c) ==
    /\ cl[c].pc = "get_prompt"
    /\ \/ \E p \in PromptResults :
            Set(c, [cl[c] EXCEPT !.pc = "list_tools",
                                 !.prompt_text = ExtractPromptText(p),
                                 !.messages = InitialMessages(cl[c].query)])
       \/ Raise(c, cl[c], "RegistryError")
    /\ UNCHANGED <<handlers, trace>>

\* lines 101-106
ListTools(c) ==
    /\ cl[c].pc = "list_tools"
    /\ \/ Set(c, [cl[c] EXCEPT !.pc = "create", !.listed = @ + 1,
                               !.available_tools = Catalog])
       \/ Raise(c, [cl[c] EXCEPT !.listed = @ + 1], "RegistryError")
    /\ UNCHANGED <<handlers, trace>>

LoopCallDropsTools(r, failed) ==
    [kind |-> "loop", messages |-> r.messages,
     tools |-> IF r.gw = <<>> THEN r.available_tools ELSE {},
     system |-> None, failed |-> failed]

LoopCallBeforeResult(r, failed) ==
    [kind |-> "loop",
     messages |-> IF Len(r.messages) > 1
                  THEN SubSeq(r.messages, 1, Len(r.messages) - 1)
                  ELSE r.messages,
     tools |-> r.available_tools, system |-> None, failed |-> failed]

\* lines 109-114 and 152-157: the request of a loop call; it names no
\* system instruction
LoopCall(r, failed) ==
    [kind |-> "loop", messages |-> r.messages, tools |-> r.available_tools,
     system |-> None, failed |-> failed]

SummaryCallWithFinalTurn(r, failed) ==
    [kind |-> "summary",
     messages |-> Append(r.messages, [role |-> "assistant", content |-> r.amc]),
     tools |-> {}, system |-> SummarySystem(r.query), failed |-> failed]

\* lines 164-169: the request of the summary call
SummaryCall(r, failed) ==
    [kind |-> "summary", messages |-> r.messages, tools |-> {},
     system |-> SummarySystem(r.query), failed |-> failed]

\* lines 109-114 (first call) and 152-159 (after a tool result): one
\* blocking gateway call; the new response is scanned from its first block
\* with an empty assistant_message_content (line 120)
Create(c) ==
    /\ cl[c].pc = "create"
    /\ LET r == cl[c]
           g == Len(LoopCalls(r)) + 1
       IN  /\ r.stub = Forever => g <= MaxIter
           /\ \/ \E resp \in GatewayResponses(r.stub, g) :
                    Set(c, [r EXCEPT !.pc = "scan", !.response = resp,
                                     !.amc = <<>>, !.idx = 0,
                                     !.gw = Append(@, LoopCall(r, FALSE)),
                                     !.responses = Append(@, resp)])
              \/ Raise(c, [r EXCEPT !.gw = Append(@, LoopCall(r, TRUE))],
                       "GatewayError")
    /\ UNCHANGED <<handlers, trace>>

RECURSIVE ScanBlocksDropsText(_, _, _)
ScanBlocksDropsText(content, i, st) ==
    IF i > Len(content)
    THEN [st EXCEPT !.found = FALSE, !.idx = i]
    ELSE IF content[i].type = "text"
    THEN ScanBlocksDropsText(content, i + 1,
            [st EXCEPT !.final_text = Append(@, content[i].text)])
    ELSE IF content[i].type = "tool_use"
    THEN [st EXCEPT !.found = TRUE, !.idx = i,
                    !.log = Emit(@, st.n, INFO,
                                 [fmt |-> "Tool use detected", name |-> content[i].name])]
    ELSE ScanBlocksDropsText(content, i + 1, st)

\* lines 121-129: the for loop over response.content, up to the first
\* tool_use block or the end of the response
RECURSIVE ScanBlocks(_, _, _)
ScanBlocks(content, i, st) ==
    IF i > Len(content)
    THEN [st EXCEPT !.found = FALSE, !.idx = i]
    ELSE IF content[i].type = "text"
    THEN ScanBlocks(content, i + 1,
            [st EXCEPT !.final_text = Append(@, content[i].text),
                       !.amc = Append(@, content[i]),
                       !.log = Emit(@, st.n, DEBUG,
                                    [fmt |-> "Received text content", text |-> content[i].text])])
    ELSE IF content[i].type = "tool_use"
    THEN [st EXCEPT !.found = TRUE, !.idx = i,
                    !.log = Emit(@, st.n, INFO,
                                 [fmt |-> "Tool use detected", name |-> content[i].name])]
    ELSE ScanBlocks(content, i + 1, st)

AfterScanRecall(r, found) ==
    IF found THEN "call_tool"
    ELSE IF Len(r.responses) <= Len(r.invoked) + 1 THEN "create" ELSE "summary"

AfterScanCapped(r, found) ==
    IF found /\ Len(r.invoked) < 1 THEN "call_tool" ELSE "summary"

\* lines 126-132 and 160-162: a tool_use block leads to its invocation, the
\* end of the response (the for loop's else) leaves the while loop
AfterScan(r, found) == IF found THEN "call_tool" ELSE "summary"

Scan(c) ==
    /\ cl[c].pc = "scan"
    /\ LET r == cl[c]
           u == r.user_id
           st == ScanBlocks(r.response, 1,
                    [found |-> FALSE, idx |-> 0, final_text |-> r.final_text,
                     amc |-> r.amc, log |-> trace[u], n |-> handlers[u]])
       IN  /\ Set(c, [r EXCEPT !.pc = AfterScan(r, st.found),
                               !.idx = st.idx, !.final_text = st.final_text,
                               !.amc = st.amc])
           /\ trace' = [trace EXCEPT ![u] = st.log]
    /\ UNCHANGED handlers

\* what the registry can answer to a call_tool: the tool's output, or an
\* error result of the tool
ToolResults ==
    { [isError |-> FALSE, content |-> "hello"],
      [isError |-> TRUE, content |-> "Error executing tool"] }

\* lines 127-132: the tool named by the block is invoked; the await either
\* yields a result or raises
InvocationsOfAll(r) ==
    LET uses == SelectSeq(r.response, LAMBDA b : b.type = "tool_use")
    IN  [k \in 1..Len(uses) |->
            [name |-> uses[k].name, args |-> uses[k].input, id |-> uses[k].id]]

\* lines 127-132: the one call made for the block that stopped the scan
Invocations(r) ==
    LET content == r.response[r.idx]
    IN  << [name |-> content.name, args |-> content.input, id |-> content.id] >>

CallTool(c) ==
    /\ cl[c].pc = "call_tool"
    /\ LET r == cl[c]
           sent == [r EXCEPT !.invoked = @ \o Invocations(r)]
       IN  \/ \E res \in ToolResults :
                Set(c, [sent EXCEPT !.pc = "commit", !.result = res])
           \/ Raise(c, sent, "ToolInvocationError")
    /\ UNCHANGED <<handlers, trace>>

\* lines 136-139: the assistant turn of the blocks scanned so far
AssistantTurn(amc) == [role |-> "assistant", content |-> amc]

ToolResultTurnStaleId(content, result) ==
    [role |-> "user",
     content |-> << [type |-> "tool_result", tool_use_id |-> <<"toolu", 1, 1>>,
                     content |-> result.content] >>]

\* lines 140-149: the user turn answering the tool_use block `content`
ToolResultTurn(content, result) ==
    [role |-> "user",
     content |-> << [type |-> "tool_result", tool_use_id |-> content.id,
                     content |-> result.content] >>]

\* lines 133-149: the call is noted in final_text, the assistant turn and
\* the tool_result turn are appended to the Transcript
Commit(c) ==
    /\ cl[c].pc = "commit"
    /\ LET r == cl[c]
           content == r.response[r.idx]
           amc == Append(r.amc, content)
       IN  Set(c, [r EXCEPT
                !.pc = "create",
                !.final_text = Append(@, [fmt |-> "Calling tool", name |-> content.name,
                                          args |-> content.input]),
                !.amc = amc,
                !.messages = @ \o << AssistantTurn(amc),
                                     ToolResultTurn(content, r.result) >>])
    /\ UNCHANGED <<handlers, trace>>

\* line 170
ResponseText(resp) == resp[1].text

\* lines 164-172: the summary call and the return of its first block's text
Summary(c) ==
    /\ cl[c].pc = "summary"
    /\ LET r == cl[c]
       IN  \/ \E resp \in SummaryResponses :
                Set(c, [r EXCEPT !.pc = "finally", !.response_summary = resp,
                                 !.retval = ResponseText(resp),
                                 !.gw = Append(@, SummaryCall(r, FALSE))])
           \/ Raise(c, [r EXCEPT !.gw = Append(@, SummaryCall(r, TRUE))],
                    "GatewayError")
    /\ UNCHANGED <<handlers, trace>>

----------------------------------------------------------------------------
(* main.py 73-162: oauth_callback *)

\* main.py 125: range(3)
MaxAttempts == 3

\* what one post to the new_user endpoint can come to: a response with a
\* status, httpx.ReadTimeout, or another exception
Outcomes ==
    { [kind |-> "status", status |-> st] : st \in {200, 302, 404, 500, 503} }
    \cup { [kind |-> "ReadTimeout", status |-> 0], [kind |-> "Exception", status |-> 0] }

\* the query parameters of the callback: the code (present or not) and the
\* state (absent, not decodable, decodable without userId, complete)
CallbackInputs ==
    { [code |-> cd, state |-> st] :
        cd \in {"absent", "present"},
        st \in {"absent", "malformed", "incomplete", "complete"} }

Callback(in) ==
    [ pc |-> "validate",
      in |-> in,
      attempt |-> 0,             \* the loop variable of line 125
      attempts |-> <<>>,         \* the outcomes of the posts made to new_user
      sleeps |-> 0,              \* asyncio.sleep(1) calls made
      tokens |-> 0,              \* update_user_salesforce_tokens calls made
      status |-> 0 ]             \* the status of the response to the browser

\* no callback is being served
NoCallback == [Callback([code |-> "absent", state |-> "absent"]) EXCEPT !.pc = "idle"]

\* lines 75-90: both parameters are there and the state decodes to a user
\* id and an environment, or the request is refused with 400
OAuthValidate ==
    /\ oauth.pc = "validate"
    /\ IF oauth.in.code = "present" /\ oauth.in.state = "complete"
       THEN oauth' = [oauth EXCEPT !.pc = "token"]
       ELSE oauth' = [oauth EXCEPT !.pc = "done", !.status = 400]
    /\ UNCHANGED <<cl, handlers, trace>>

\* lines 92-112: the code is exchanged for tokens, which are stored
OAuthToken ==
    /\ oauth.pc = "token"
    /\ \E st \in {200, 400} :
          IF st # 200
          THEN oauth' = [oauth EXCEPT !.pc = "done", !.status = 400]
          ELSE oauth' = [oauth EXCEPT !.pc = "new_user", !.tokens = @ + 1]
    /\ UNCHANGED <<cl, handlers, trace>>

RetryAnyFailure(o) == ~(o.kind = "status" /\ o.status = 200)

\* lines 136-151: the outcomes after which the loop goes on to its next
\* iteration (continue) instead of leaving (break)
Retry(o) ==
    \/ o.kind = "status" /\ o.status # 200 /\ o.status >= 500
    \/ o.kind = "ReadTimeout"

\* lines 125-154: one iteration of the retry loop, up to its sleep
OAuthNewUser ==
    /\ oauth.pc = "new_user"
    /\ IF oauth.attempt >= MaxAttempts
       THEN oauth' = [oauth EXCEPT !.pc = "redirect"]
       ELSE \E o \in Outcomes :
              LET made == [oauth EXCEPT !.attempts = Append(@, o)]
              IN  IF Retry(o)
                  THEN IF oauth.attempt < 2
                       THEN oauth' = [made EXCEPT !.pc = "sleep"]
                       ELSE oauth' = [made EXCEPT !.attempt = @ + 1]
                  ELSE oauth' = [made EXCEPT !.pc = "redirect"]
    /\ UNCHANGED <<cl, handlers, trace>>

\* lines 141 and 150: the wait before the next attempt
OAuthSleep ==
    /\ oauth.pc = "sleep"
    /\ oauth' = [oauth EXCEPT !.pc = "new_user", !.sleeps = @ + 1, !.attempt = @ + 1]
    /\ UNCHANGED <<cl, handlers, trace>>

\* line 162
OAuthRedirect ==
    /\ oauth.pc = "redirect"
    /\ oauth' = [oauth EXCEPT !.pc = "done", !.status = 307]
    /\ UNCHANGED <<cl, handlers, trace>>

----------------------------------------------------------------------------

\* one request, served by one MCPClient
Init ==
    /\ cl \in [{1} -> { InitClient(u, q, s) : u \in UserIds, q \in Queries, s \in Stubs }]
    /\ handlers = [u \in UserIds |-> 0]
    /\ trace = [u \in UserIds |-> <<>>]
    /\ oauth = NoCallback

Next ==
    \/ \E c \in DOMAIN cl : Construct(c) /\ UNCHANGED oauth
    \/ \E c \in DOMAIN cl : ConnectLaunch(c) /\ UNCHANGED oauth
    \/ \E c \in DOMAIN cl : ConnectInitialize(c) /\ UNCHANGED oauth
    \/ \E c \in DOMAIN cl : ConnectListTools(c) /\ UNCHANGED oauth
    \/ \E c \in DOMAIN cl : GetPrompt(c) /\ UNCHANGED oauth
    \/ \E c \in DOMAIN cl : ListTools(c) /\ UNCHANGED oauth
    \/ \E c \in DOMAIN cl : Create(c) /\ UNCHANGED oauth
    \/ \E c \in DOMAIN cl : Scan(c) /\ UNCHANGED oauth
    \/ \E c \in DOMAIN cl : CallTool(c) /\ UNCHANGED oauth
    \/ \E c \in DOMAIN cl : Commit(c) /\ UNCHANGED oauth
    \/ \E c \in DOMAIN cl : Summary(c) /\ UNCHANGED oauth
    \/ \E c \in DOMAIN cl : Cleanup(c) /\ UNCHANGED oauth

Spec == Init /\ [][Next]_vars

\* every call the session is waiting on returns or raises, and the event
\* loop resumes the handler
FairInit == Init /\ \A c \in DOMAIN cl : cl[c].user_id = "u1"

FairSpec == FairInit /\ [][Next]_vars /\ WF_vars(Next)

\* one request whose client is connected with a launch target of the caller
LaunchInit ==
    /\ cl \in [{1} -> { InitClientAt("u1", q, s, p) :
                          q \in Queries, s \in {0, 1}, p \in LaunchTargets }]
    /\ handlers = [u \in UserIds |-> 0]
    /\ trace = [u \in UserIds |-> <<>>]
    /\ oauth = NoCallback

LaunchSpec == LaunchInit /\ [][Next]_vars

\* two requests of one user served concurrently: the event loop interleaves
\* the steps of their handlers at every await (and, in the model, at every
\* call)
ConcInit ==
    /\ cl \in { <<a, b>> :
                  a \in { InitClient("u1", "list files", s) : s \in {0, 1} },
                  b \in { InitClient("u1", "describe the flow", 0) } }
    /\ handlers = [u \in UserIds |-> 0]
    /\ trace = [u \in UserIds |-> <<>>]
    /\ oauth = NoCallback

ConcSpec == ConcInit /\ [][Next]_vars

\* one OAuth callback
OAuthInit ==
    /\ cl = [c \in {} |-> InitClient("u1", "list files", 0)]
    /\ handlers = [u \in UserIds |-> 0]
    /\ trace = [u \in UserIds |-> <<>>]
    /\ oauth \in { Callback(in) : in \in CallbackInputs }

OAuthNext ==
    \/ OAuthValidate
    \/ OAuthToken
    \/ OAuthNewUser
    \/ OAuthSleep
    \/ OAuthRedirect

OAuthSpec == OAuthInit /\ [][OAuthNext]_vars

----------------------------------------------------------------------------
(* Properties *)

Clients == DOMAIN cl

Finished(r) == r.pc \in {"finally", "done"}

IsToolUse(b) == b.type = "tool_use"

ToolUses(content) == { i \in 1..Len(content) : IsToolUse(content[i]) }

FirstToolUse(content) ==
    CHOOSE i \in ToolUses(content) : \A j \in ToolUses(content) : i <= j

\* the blocks of `content` that request the call `id`
Requesting(content, id) ==
    { i \in ToolUses(content) : content[i].id = id }

LastTurn(msgs) == msgs[Len(msgs)]

\* C1: no tool is invoked before the assistant turn requesting it is in the
\* Transcript: whenever the k-th call_tool has been issued, the k-th
\* assistant turn is already in messages and holds the requesting block.
C1_TurnCommittedBeforeInvocation ==
    \A c \in Clients :
        LET r == cl[c]
        IN  \A k \in 1..Len(r.invoked) :
                /\ Len(r.messages) >= 2 * k
                /\ r.messages[2 * k].role = "assistant"
                /\ Requesting(r.messages[2 * k].content, r.invoked[k].id) # {}

\* C2: a failing call_tool never aborts the loop: once the handler has left
\* process_query, every call made has its tool_result turn in the
\* Transcript, and no tool failure is what ended the request.
C2_ToolFailureFolded ==
    \A c \in Clients :
        LET r == cl[c]
        IN  Finished(r) =>
                /\ r.exc # "ToolInvocationError"
                /\ \A k \in 1..Len(r.invoked) :
                        /\ Len(r.messages) >= 2 * k + 1
                        /\ r.messages[2 * k + 1].content[1].type = "tool_result"
                        /\ r.messages[2 * k + 1].content[1].tool_use_id = r.invoked[k].id

\* C3: cleanup runs exactly once per request on every exit path, and no
\* request ends with the registry connection still held.
C3_CleanupExactlyOnce ==
    \A c \in Clients :
        LET r == cl[c]
        IN  /\ r.cleanups = (IF r.pc = "done" THEN 1 ELSE 0)
            /\ r.pc = "done" => r.conn # "held" /\ r.exit_stack = <<>>

C3_Witness ==
    \E c \in Clients :
        /\ cl[c].pc = "done"
        /\ cl[c].exc = "ToolInvocationError"
        /\ cl[c].conn = "released"
        /\ cl[c].cleanups = 1

\* C4: every tool_result turn of the Transcript answers exactly one
\* tool_use block of the assistant turn immediately before it.
C4_ResultMatchesPriorRequest ==
    \A c \in Clients :
        LET msgs == cl[c].messages
        IN  \A i \in 2..Len(msgs) :
                msgs[i].role = "user" =>
                    /\ msgs[i - 1].role = "assistant"
                    /\ Len(msgs[i].content) = 1
                    /\ msgs[i].content[1].type = "tool_result"
                    /\ Cardinality(Requesting(msgs[i - 1].content,
                                              msgs[i].content[1].tool_use_id)) = 1

C4_Witness ==
    \E c \in Clients :
        /\ Len(cl[c].messages) >= 5
        /\ Cardinality(ToolUses(cl[c].responses[1])) >= 2
        /\ Len(cl[c].messages[4].content) >= 2

\* C5: with a gateway that returns a tool-call turn the first N times and a
\* plain-text turn thereafter, process_query terminates; when it returns it
\* has made exactly N + 1 loop calls and N tool invocations, then the one
\* summary call, after the loop, whose text it returns.
C5_Counts ==
    \A c \in Clients :
        LET r == cl[c]
        IN  /\ r.stub # Forever =>
                  Len(LoopCalls(r)) <= r.stub + 1 /\ Len(r.invoked) <= r.stub
            /\ \A k \in 1..Len(r.gw) :
                  r.gw[k].kind = "summary" =>
                      /\ k = Len(r.gw)
                      /\ r.responses # <<>>
                      /\ ~HasToolUse(LastTurn(r.responses))
            /\ r.retval # None =>
                  /\ r.stub # Forever
                  /\ Len(LoopCalls(r)) = r.stub + 1
                  /\ Len(r.invoked) = r.stub
                  /\ Len(SummaryCalls(r)) = 1
                  /\ r.retval = r.response_summary[1].text

\* C5 (the whole claim): the counts above hold throughout, and every session
\* whose gateway stops asking for tools reaches the end of its request.
C5_TerminatesWithCounts ==
    /\ []C5_Counts
    /\ <>(\A c \in Clients : cl[c].stub # Forever => cl[c].pc = "done")

C5_Witness ==
    \E c \in Clients :
        /\ cl[c].pc = "done"
        /\ cl[c].stub = 1
        /\ cl[c].retval = "summary"
        /\ Len(LoopCalls(cl[c])) = 2
        /\ Len(cl[c].invoked) = 1
        /\ cl[c].invoked[1].name = "read_file"

\* C6: with a gateway that asks for a tool on every call the loop never
\* leaves on its own: no summary call is made and process_query does not
\* return (it ends only by an exception), and the Transcript sent with the
\* g-th loop call has grown by two turns per earlier iteration.
C6_NoExitWhileToolsRequested ==
    \A c \in Clients :
        LET r == cl[c]
        IN  r.stub = Forever =>
                /\ SummaryCalls(r) = <<>>
                /\ r.pc # "summary"
                /\ r.retval = None
                /\ Finished(r) => r.exc # None
                /\ \A g \in 1..Len(LoopCalls(r)) :
                      Len(LoopCalls(r)[g].messages) = 1 + 2 * (g - 1)
                /\ r.pc = "create" => Len(r.messages) = 1 + 2 * Len(LoopCalls(r))

C6_Witness ==
    \E c \in Clients :
        /\ cl[c].stub = Forever
        /\ cl[c].pc = "create"
        /\ Len(LoopCalls(cl[c])) = MaxIter
        /\ Len(cl[c].messages) = 1 + 2 * MaxIter

\* C7: at most one tool is invoked per gateway response, the one of its
\* first tool_use block; no later tool_use block of a response is ever
\* invoked, and the next loop call is sent with the Transcript that ends in
\* the result of that one invocation.
C7_OneToolPerResponse ==
    \A c \in Clients :
        LET r == cl[c]
        IN  /\ Len(r.invoked) <= Len(r.responses)
            /\ \A k \in 1..Len(r.invoked) :
                  /\ ToolUses(r.responses[k]) # {}
                  /\ r.invoked[k].id = r.responses[k][FirstToolUse(r.responses[k])].id
            /\ \A g \in 1..Len(r.responses) :
                  \A i \in ToolUses(r.responses[g]) :
                      i # FirstToolUse(r.responses[g]) =>
                          \A k \in 1..Len(r.invoked) :
                              r.invoked[k].id # r.responses[g][i].id
            /\ \A g \in 2..Len(LoopCalls(r)) :
                  LET last == LastTurn(LoopCalls(r)[g].messages)
                  IN  /\ last.role = "user"
                      /\ last.content[1].type = "tool_result"
                      /\ last.content[1].tool_use_id = r.invoked[g - 1].id

C7_Witness ==
    \E c \in Clients :
        /\ Len(LoopCalls(cl[c])) >= 2
        /\ Cardinality(ToolUses(cl[c].responses[1])) >= 2

\* C8: a failed gateway call (loop or summary) is the last call of the
\* session: the failure is what ends the request, nothing is returned to
\* the caller, and no gateway call or tool invocation follows it.
C8_GatewayFailureIsFatal ==
    \A c \in Clients :
        LET r == cl[c]
        IN  \A k \in 1..Len(r.gw) :
                r.gw[k].failed =>
                    /\ k = Len(r.gw)
                    /\ Finished(r)
                    /\ r.exc = "GatewayError"
                    /\ r.retval = None
                    /\ Len(r.gw[k].messages) = 1 + 2 * Len(r.invoked)

C8_Witness ==
    \E c \in Clients :
        /\ cl[c].pc = "done"
        /\ cl[c].exc = "GatewayError"
        /\ LastTurn(cl[c].gw).failed
        /\ LastTurn(cl[c].gw).kind = "loop"
        /\ Len(cl[c].invoked) >= 1

\* C9: every tool invocation (name and arguments) and every text fragment
\* the loop has processed has an entry in the requester's trace.
C9_InvocationsAndTextTraced ==
    \A c \in Clients :
        LET r == cl[c]
            log == trace[r.user_id]
        IN  /\ \A k \in 1..Len(r.invoked) :
                  \E e \in 1..Len(log) :
                      /\ "name" \in DOMAIN log[e].msg
                      /\ log[e].msg.name = r.invoked[k].name
                      /\ "args" \in DOMAIN log[e].msg
                      /\ log[e].msg.args = r.invoked[k].args
            /\ \A t \in 1..Len(r.final_text) :
                  "fragment" \in DOMAIN r.final_text[t] =>
                      \E e \in 1..Len(log) :
                          /\ "text" \in DOMAIN log[e].msg
                          /\ log[e].msg.text = r.final_text[t]

\* C10: the loop's gateway calls carry the system prompt text fetched at
\* the start of process_query.
C10_LoopCallsCarryPrompt ==
    \A c \in Clients :
        \A g \in 1..Len(LoopCalls(cl[c])) :
            LoopCalls(cl[c])[g].system = cl[c].prompt_text

\* C11: connect_to_server with a launch target that ends neither in .py nor
\* in .js raises the validation error before anything is launched or
\* contacted: no registry process, no session, no catalog fetch, no gateway
\* call, no tool invocation.
Suffix3(path) == IF Len(path) >= 3 THEN SubSeq(path, Len(path) - 2, Len(path)) ELSE <<"short">>

Unrecognized(path) ==
    Suffix3(path) # << ".", "p", "y" >> /\ Suffix3(path) # << ".", "j", "s" >>

\* C11 (the formula): a launch target that ends in neither ".py" nor ".js"
\* is rejected with ValueError before any process is launched.
C11_UnrecognizedTargetRejected ==
    \A c \in Clients :
        LET r == cl[c]
        IN  Unrecognized(r.server_script_path) =>
                /\ r.conn = "none"
                /\ r.session = None
                /\ r.command = None
                /\ r.exit_stack = <<>>
                /\ r.listed = 0
                /\ r.gw = <<>>
                /\ r.invoked = <<>>
                /\ r.messages = <<>>
                /\ r.pc \in {"request", "connect", "finally", "done"}
                /\ Finished(r) => r.exc = "ValueError" /\ r.retval = None

C11_Witness ==
    \E c \in Clients :
        /\ cl[c].server_script_path = << "s", "p", "y" >>
        /\ cl[c].pc = "done"
        /\ cl[c].exc = "ValueError"
        /\ cl[c].conn = "none"

\* C12: the post to new_user is attempted at most 3 times; another attempt
\* follows only a 5xx response or a read timeout, and follows it whenever
\* fewer than 3 attempts were made; a 200, any other status or any other
\* exception is the last attempt.
Transient(o) ==
    \/ o.kind = "ReadTimeout"
    \/ o.kind = "status" /\ o.status \in 500..599

\* C12 (the formula): the user-creation call is retried on a timeout or a
\* 5xx answer only, and is attempted at most MaxAttempts times.
C12_BoundedRetryOfTransientOnly ==
    /\ Len(oauth.attempts) <= MaxAttempts
    /\ \A k \in 1..Len(oauth.attempts) :
          k < Len(oauth.attempts) => Transient(oauth.attempts[k])
    /\ oauth.pc \in {"redirect", "done"} /\ oauth.attempts # <<>> =>
          \/ Len(oauth.attempts) = MaxAttempts
          \/ ~Transient(LastTurn(oauth.attempts))
    /\ oauth.sleeps <= MaxAttempts - 1

C12_Witness ==
    /\ oauth.pc = "done"
    /\ Len(oauth.attempts) = 3
    /\ oauth.attempts[1].kind = "ReadTimeout"
    /\ oauth.attempts[2].status = 503
    /\ oauth.attempts[3].status = 404
    /\ oauth.sleeps = 2

\* the assistant turn the loop commits for a response with a tool_use block
CommittedPart(resp) == SubSeq(resp, 1, FirstToolUse(resp))

\* the Transcript of r is made of r's query, r's responses and r's calls
OwnTranscript(r) ==
    r.messages # <<>> =>
        /\ r.messages[1].content = r.query
        /\ \A i \in 2..Len(r.messages) :
              IF i % 2 = 0
              THEN /\ i \div 2 <= Len(r.responses)
                   /\ ToolUses(r.responses[i \div 2]) # {}
                   /\ r.messages[i].content = CommittedPart(r.responses[i \div 2])
              ELSE /\ i \div 2 <= Len(r.invoked)
                   /\ r.messages[i].content[1].tool_use_id = r.invoked[i \div 2].id

\* C13: under any interleaving of two sessions each Transcript is made only
\* of its own session's query, responses and calls, a session holds its
\* registry connection from launch to its own cleanup, and a step of one
\* session (its close included) changes nothing of the other.
C13_Inv ==
    \A c \in Clients :
        /\ OwnTranscript(cl[c])
        /\ cl[c].conn = "held" <=> cl[c].exit_stack # <<>>
        /\ cl[c].pc \in {"initialize", "connect_list", "get_prompt", "list_tools",
                         "create", "scan", "call_tool", "commit", "summary"}
              => cl[c].conn = "held"

\* C13 (the formula): each session keeps its own Transcript and connection
\* in every state, and a step of one session leaves the other untouched.
C13_SessionsIsolated ==
    /\ []C13_Inv
    /\ [][\A c \in Clients : \A d \in Clients :
             (cl'[c] # cl[c] /\ d # c) => cl'[d] = cl[d]]_vars

C13_Witness ==
    /\ Clients = {1, 2}
    /\ cl[1].pc = "done"
    /\ cl[1].conn = "released"
    /\ Len(cl[1].messages) = 3
    /\ cl[2].conn = "held"
    /\ cl[2].pc = "summary"
    /\ Len(cl[2].messages) = 1
    /\ cl[2].messages[1].content # cl[1].messages[1].content

\* the clients ever constructed for user u, finished or not
Constructed(u) == { c \in Clients : cl[c].user_id = u /\ cl[c].pc # "request" }

\* C19: the logger of a user holds one handler per MCPClient ever
\* constructed for that user, cleanup removes none, and the one log call
\* made for a tool_use block adds that many records to the user's trace.
C19_HandlerCount ==
    \A u \in UserIds : handlers[u] = Cardinality(Constructed(u))

\* C19 (the formula): the handler count holds in every state and each
\* emitted message is written once per handler of the user.
C19_HandlersAccumulate ==
    /\ []C19_HandlerCount
    /\ [][\A c \in Clients :
             (cl[c].pc = "scan" /\ cl'[c].pc = "call_tool") =>
                 LET u == cl[c].user_id
                     n == Cardinality(Constructed(u))
                     name == cl'[c].response[cl'[c].idx].name
                 IN  /\ Len(trace'[u]) = Len(trace[u]) + n
                     /\ SubSeq(trace'[u], 1, Len(trace[u])) = trace[u]
                     /\ \A k \in Len(trace[u]) + 1 .. Len(trace'[u]) :
                           trace'[u][k].msg.name = name]_vars

C19_Witness ==
    /\ Clients = {1, 2}
    /\ cl[1].user_id = cl[2].user_id
    /\ cl[2].pc = "done"
    /\ cl[1].pc = "call_tool"
    /\ handlers[cl[1].user_id] = 2
    /\ Len(trace[cl[1].user_id]) = 2
    /\ trace[cl[1].user_id][1] = trace[cl[1].user_id][2]

C15_CallsCarryCommittedTranscript ==
    \A c \in Clients :
        LET r == cl[c]
        IN  \A g \in 1..Len(LoopCalls(r)) :
                LET q == LoopCalls(r)[g]
                IN  /\ Len(r.messages) >= 2 * g - 1
                    /\ q.messages = SubSeq(r.messages, 1, 2 * g - 1)
                    /\ Len(r.invoked) >= g - 1
                    /\ LastTurn(q.messages).role = "user"
                    /\ IF g = 1
                       THEN q.messages[1].content = r.query
                       ELSE /\ LastTurn(q.messages).content[1].type = "tool_result"
                            /\ LastTurn(q.messages).content[1].tool_use_id = r.invoked[g - 1].id
                            /\ \E res \in ToolResults :
                                  LastTurn(q.messages).content[1].content = res.content

C15_Witness ==
    \E c \in Clients :
        /\ Len(LoopCalls(cl[c])) = 3
        /\ Len(cl[c].invoked) = 2
        /\ Len(LoopCalls(cl[c])[3].messages) = 5

IsPrefix(s, t) == Len(s) <= Len(t) /\ SubSeq(t, 1, Len(s)) = s

\* the session is between the return of call_tool and the two appends that
\* follow it with no await in between (lines 132-149)
Committing(r) == r.pc = "commit"

\* C16: the Transcript starts as the one user turn of the query; after k
\* tool invocations it has 1 + 2k turns, user and assistant alternating,
\* each assistant turn followed by a user turn whose one block is a
\* tool_result; turns are only ever appended.
C16_Shape ==
    \A c \in Clients :
        LET r == cl[c]
            k == Len(r.invoked)
        IN  r.messages # <<>> /\ r.pc # "call_tool" /\ ~Committing(r) =>
                /\ Len(r.messages) = 1 + 2 * k
                /\ r.messages[1] = [role |-> "user", content |-> r.query]
                /\ \A i \in 2..Len(r.messages) :
                      IF i % 2 = 0
                      THEN r.messages[i].role = "assistant"
                      ELSE /\ r.messages[i].role = "user"
                           /\ Len(r.messages[i].content) = 1
                           /\ r.messages[i].content[1].type = "tool_result"

\* C16 (the formula): the shape holds in every state and every step keeps
\* the turns already in the Transcript.
C16_TranscriptShape ==
    /\ []C16_Shape
    /\ [][\A c \in Clients : IsPrefix(cl[c].messages, cl'[c].messages)]_vars

\* the block `b` of a response stands in turn `t` of a Transcript
InTurn(b, t) ==
    /\ t.role = "assistant"
    /\ \E j \in 1..Len(t.content) :
          /\ t.content[j].type = b.type
          /\ IF b.type = "text"
             THEN t.content[j].text = b.text
             ELSE t.content[j].id = b.id

InTranscript(b, msgs) == \E i \in 1..Len(msgs) : InTurn(b, msgs[i])

\* C17: the Transcript handed to the summary call is the one the loop
\* ended with; its last turn is a user turn, the query or the last
\* tool_result, and no block of the terminating response stands in it.
C17_FinalTurnNotCommitted ==
    \A c \in Clients :
        LET r == cl[c]
        IN  \A k \in 1..Len(r.gw) :
                r.gw[k].kind = "summary" =>
                    LET msgs == r.gw[k].messages
                        final == r.responses[Len(LoopCalls(r))]
                    IN  /\ msgs = r.messages
                        /\ Len(msgs) = 1 + 2 * Len(r.invoked)
                        /\ LastTurn(msgs).role = "user"
                        /\ IF Len(msgs) = 1
                           THEN LastTurn(msgs).content = r.query
                           ELSE LastTurn(msgs).content[1].type = "tool_result"
                        /\ ~HasToolUse(final)
                        /\ \A i \in 1..Len(final) : ~InTranscript(final[i], msgs)

C17_Witness ==
    \E c \in Clients :
        /\ Len(SummaryCalls(cl[c])) = 1
        /\ Len(SummaryCalls(cl[c])[1].messages) = 3
        /\ Len(cl[c].responses[2]) >= 1
        /\ cl[c].responses[2][1].type = "text"
        /\ cl[c].retval # None

\* the text blocks of `content` before position `f`, in order
RECURSIVE TextBefore(_, _)
TextBefore(content, f) ==
    IF f <= 1 THEN <<>>
    ELSE LET rest == TextBefore(content, f - 1)
         IN  IF content[f - 1].type = "text"
             THEN Append(rest, content[f - 1])
             ELSE rest

====
